---- MODULE Spec2Model ----
(***************************************************************************)
(* BaseTrainer (image_to_latex/trainers/base_trainer.py): the epoch loop   *)
(* of fit, the early-stopping policy, the best-model checkpoint and test.  *)
(*                                                                         *)
(* Validation losses are floats in the program.  They are modelled by the  *)
(* integers 0..MaxLoss (finite losses) and Inf = MaxLoss + 1, which is     *)
(* float("inf"): greater than every finite loss and not less than itself,  *)
(* so that the float comparison `<` is the integer `<`.  NaN losses are    *)
(* not drawn.  max_epochs is drawn from 1..MaxEpochsBound, and fit is      *)
(* called again only while all its epochs fit into a log of MaxLog epochs. *)
(*                                                                         *)
(* The model's parameters are abstracted to a version number `weights`     *)
(* that every training phase advances: optimizer.step() updates the        *)
(* parameter tensors in place.                                             *)
(***************************************************************************)
EXTENDS Integers, Sequences, FiniteSets, TLC

\* ---- bounds of the model ----
MaxEpochsBound == 3
MaxPatience == 2
MaxLoss == 1
MaxLog == 4

\* ---- program constants ----
start_epoch == 1
Inf == MaxLoss + 1
DISABLED == 0 - 1

Losses == 0..Inf
IsFinite(x) == x <= MaxLoss

VARIABLES
    max_epochs,        \* config "max-epochs"
    patience,          \* config "patience"
    save_best_model,   \* config "save-best-model"
    wandb_run,         \* TRUE iff an experiment tracker run is attached
    best_val_loss,
    no_improve_count,
    checkpoint,        \* <<>> while the attribute is unset, else <<state dict>>
    weights,           \* current value of the model's parameter tensors
    next_dict,         \* identity of the next dict that state_dict() creates
    pc,                \* "idle" | "train" | "val" | "summary"
    epoch,             \* loop variable of fit (0 before it is first bound)
    stopped,           \* the last _early_stopping call of this fit returned True
    summary_epoch,     \* wandb.run.summary["epoch"]: <<>> or <<e>>
    fits,              \* number of calls of fit so far
    log,               \* one record per completed epoch (the progress lines)
    test_status,       \* "not_run" | "ok" | "AttributeError"
    test_loaded,       \* the state dict that test loaded: <<>> or <<state dict>>
    test_used          \* the weights test predicted with: <<>> or <<w>>

cfg == <<max_epochs, patience, save_best_model, wandb_run>>
tst == <<test_status, test_loaded, test_used>>
vars == <<max_epochs, patience, save_best_model, wandb_run, best_val_loss,
          no_improve_count, checkpoint, weights, next_dict, pc, epoch, stopped,
          summary_epoch, fits, log, test_status, test_loaded, test_used>>

\* ---- helpers of the model ----

\* nn.Module.state_dict(): a new dict whose values are the parameter tensors
\* themselves (references, no copy).
state_dict(id) == [dict |-> id, tensors |-> "parameters"]

\* The values that state dict sd holds when the parameters' value is w: its
\* tensors share the parameters' storage, so they are the parameters' values
\* at the time of reading, not at the time state_dict() was called.
TensorsOf(sd, w) == w

\* nn.Module.load_state_dict(sd): copies the dict's values into the parameters.
load_state_dict(sd, w) == TensorsOf(sd, w)

\* line 234: current_val_loss < self.best_val_loss
Mut_Improved_flipped(current_val_loss, best) == current_val_loss > best
Mut_Improved_nonstrict(current_val_loss, best) == current_val_loss <= best
Improved(current_val_loss, best) == current_val_loss < best

\* line 240: self.no_improve_count == self.patience
Mut_ReachedPatience_early(count, pat) == count + 1 = pat
Mut_ReachedPatience_ge(count, pat) == count >= pat
ReachedPatience(count, pat) == count = pat

\* _save_checkpoint: the new value of self.checkpoint
Mut_save_checkpoint_always(ckpt, sd, enabled) == <<sd>>
Mut_save_checkpoint_never(ckpt, sd, enabled) == ckpt
save_checkpoint(ckpt, sd, enabled) == IF ~enabled THEN ckpt ELSE <<sd>>

\* _early_stopping(current_val_loss): new attribute values and the return value
early_stopping(current_val_loss) ==
    IF Improved(current_val_loss, best_val_loss)
    THEN [best  |-> current_val_loss,
          count |-> 0,
          ckpt  |-> save_checkpoint(checkpoint, state_dict(next_dict), save_best_model),
          ret   |-> FALSE]
    ELSE [best  |-> best_val_loss,
          count |-> no_improve_count + 1,
          ckpt  |-> checkpoint,
          ret   |-> ReachedPatience(no_improve_count + 1, patience)]

\* line 129: range(self.start_epoch, self.max_epochs + 1)
Mut_InRange(e, last) == e >= start_epoch /\ e < last + 2
InRange(e, last) == e >= start_epoch /\ e < last + 1

\* line 172: min(epoch, self.max_epochs)
Mut_SummaryEpoch(e, last) == last
SummaryEpoch(e, last) == IF e < last THEN e ELSE last

\* ---- initial state: BaseTrainer.__init__ ----
Init ==
    /\ max_epochs \in 1..MaxEpochsBound
    /\ patience \in DISABLED..MaxPatience
    /\ save_best_model \in BOOLEAN
    /\ wandb_run \in BOOLEAN
    /\ best_val_loss = Inf
    /\ no_improve_count = 0
    /\ checkpoint = <<>>
    /\ weights = 0
    /\ next_dict = 1
    /\ pc = "idle"
    /\ epoch = 0
    /\ stopped = FALSE
    /\ summary_epoch = <<>>
    /\ fits = 0
    /\ log = <<>>
    /\ test_status = "not_run"
    /\ test_loaded = <<>>
    /\ test_used = <<>>

\* ---- fit ----

\* fit is called: the setup and the first evaluation of the loop's range
Fit ==
    /\ pc = "idle"
    /\ Len(log) + max_epochs <= MaxLog
    /\ fits' = fits + 1
    /\ stopped' = FALSE
    /\ IF InRange(start_epoch, max_epochs)
       THEN epoch' = start_epoch /\ pc' = "train"
       ELSE epoch' = epoch /\ pc' = "summary"
    /\ UNCHANGED <<cfg, tst, best_val_loss, no_improve_count, checkpoint,
                   weights, next_dict, summary_epoch, log>>

\* the "train" phase of an epoch: every batch steps the optimizer
TrainPhase ==
    /\ pc = "train"
    /\ weights' = weights + 1
    /\ pc' = "val"
    /\ UNCHANGED <<cfg, tst, best_val_loss, no_improve_count, checkpoint,
                   next_dict, epoch, stopped, summary_epoch, fits, log>>

\* the "val" phase, the progress line, _early_stopping and the loop's step
ValPhase ==
    /\ pc = "val"
    /\ \E val \in Losses :
        LET r == early_stopping(val) IN
        /\ best_val_loss' = r.best
        /\ no_improve_count' = r.count
        /\ checkpoint' = r.ckpt
        /\ next_dict' = IF Improved(val, best_val_loss) /\ save_best_model
                        THEN next_dict + 1 ELSE next_dict
        /\ stopped' = r.ret
        /\ log' = Append(log, [fit |-> fits, epoch |-> epoch, val |-> val,
                               weights |-> weights])
        /\ IF r.ret
           THEN pc' = "summary" /\ epoch' = epoch
           ELSE IF InRange(epoch + 1, max_epochs)
                THEN pc' = "train" /\ epoch' = epoch + 1
                ELSE pc' = "summary" /\ epoch' = epoch
    /\ UNCHANGED <<cfg, tst, weights, summary_epoch, fits>>

\* after the loop: the run summary, then fit returns
FitSummary ==
    /\ pc = "summary"
    /\ summary_epoch' = IF wandb_run THEN <<SummaryEpoch(epoch, max_epochs)>>
                        ELSE summary_epoch
    /\ pc' = "idle"
    /\ UNCHANGED <<cfg, tst, best_val_loss, no_improve_count, checkpoint,
                   weights, next_dict, epoch, stopped, fits, log>>

\* ---- test ----
Test ==
    /\ pc = "idle"
    /\ IF save_best_model /\ checkpoint = <<>>
       THEN /\ test_status' = "AttributeError"
            /\ test_loaded' = <<>>
            /\ test_used' = <<>>
            /\ weights' = weights
       ELSE /\ test_status' = "ok"
            /\ test_loaded' = IF save_best_model THEN checkpoint ELSE <<>>
            /\ weights' = IF save_best_model
                          THEN load_state_dict(checkpoint[1], weights)
                          ELSE weights
            /\ test_used' = <<weights'>>
    /\ UNCHANGED <<cfg, best_val_loss, no_improve_count, checkpoint, next_dict,
                   pc, epoch, stopped, summary_epoch, fits, log>>

Next == Fit \/ TrainPhase \/ ValPhase \/ FitSummary \/ Test

Spec == Init /\ [][Next]_vars

\* A started fit keeps running: single-threaded control flow.
FairSpec == Spec /\ WF_vars(TrainPhase) /\ WF_vars(ValPhase) /\ WF_vars(FitSummary)

\* ---- the history of completed epochs, read from the log ----

MinOf(S) == IF S = {} THEN Inf ELSE CHOOSE m \in S : \A x \in S : m <= x

\* the least validation loss among the first n epochs of l (Inf if n = 0)
MinLossUpTo(l, n) == MinOf({l[i].val : i \in 1..n})

\* epoch i of l strictly improved the best validation loss seen before it
StrictlyImproves(l, i) == l[i].val < MinLossUpTo(l, i - 1)

MaxOf(S) == CHOOSE m \in S : \A x \in S : x <= m

\* index of the last strictly improving epoch of l (0 if there is none)
LastImprovement(l) == MaxOf({0} \cup {i \in 1..Len(l) : StrictlyImproves(l, i)})

\* number of consecutive epochs without strict improvement at the end of l
SinceImprovement(l) == Len(l) - LastImprovement(l)

\* number of epochs that the k-th call of fit has completed
EpochsRun(l, k) == Cardinality({i \in 1..Len(l) : l[i].fit = k})

\* this step completes an epoch
EpochEnds == Len(log') = Len(log) + 1

\* this step is a call of test: the only step from "idle" to "idle"
TestRuns == pc = "idle" /\ pc' = "idle"

C2_FitTerminates ==
    /\ (pc # "idle") ~> (pc = "idle")
    /\ [](EpochsRun(log, fits) <= max_epochs)
    /\ []((pc \in {"summary", "idle"} /\ fits >= 1 /\ EpochsRun(log, fits) < max_epochs)
            => (stopped /\ log[Len(log)].fit = fits))

C2_Witness ==
    /\ pc = "idle"
    /\ fits = 2
    /\ EpochsRun(log, 1) = max_epochs
    /\ EpochsRun(log, 2) < max_epochs
    /\ stopped

\* ---- C3 ----
\* C3: with patience = -1 the early-stopping check never returns True, and a
\* fit whose loop has ended has run every epoch start_epoch..max_epochs.
C3_DisabledNeverStops ==
    (patience = DISABLED) =>
        /\ ~stopped
        /\ (pc \in {"summary", "idle"} /\ fits >= 1) =>
              /\ EpochsRun(log, fits) = max_epochs - start_epoch + 1
              /\ \A k \in 1..EpochsRun(log, fits) :
                    log[Len(log) - EpochsRun(log, fits) + k].epoch = start_epoch + k - 1

C3_Witness ==
    /\ patience = DISABLED
    /\ pc = "summary"
    /\ max_epochs >= 3
    /\ SinceImprovement(log) >= 2

\* ---- C4 ----
\* C4: the checkpoint attribute is assigned in a step if and only if the step
\* ends an epoch, save_best_model is true and the epoch's validation loss is
\* strictly less than the least validation loss of the epochs before it.
C4_SavedOnlyOnStrictImprovement ==
    [][(checkpoint' # checkpoint) <=>
          (/\ EpochEnds
           /\ save_best_model
           /\ log'[Len(log')].val < MinLossUpTo(log, Len(log)))]_vars

C4_Witness ==
    /\ save_best_model
    /\ checkpoint # <<>>
    /\ checkpoint[1].dict >= 2
    /\ Len(log) >= 3
    /\ log[Len(log)].val = MinLossUpTo(log, Len(log) - 1)

\* ---- C5 ----
\* C5: when test succeeds with save_best_model enabled, the weights it predicts
\* with are those the model had at the end of the last strictly improving
\* epoch (the epoch with the lowest validation loss), and a training phase
\* leaves the values held by the checkpoint unchanged.
C5_CheckpointIsSnapshot ==
    /\ [][(TestRuns /\ save_best_model /\ test_status' = "ok")
            => test_used' = <<log[LastImprovement(log)].weights>>]_vars
    /\ [][(checkpoint # <<>> /\ checkpoint' = checkpoint)
            => TensorsOf(checkpoint'[1], weights') = TensorsOf(checkpoint[1], weights)]_vars

\* ---- C6 ----
\* C6: best_val_loss is always the minimum of the validation losses of the
\* epochs completed so far (infinity when there is none), and no step
\* increases it.
C6_BestIsMinimum ==
    /\ [](best_val_loss = MinLossUpTo(log, Len(log)))
    /\ [][best_val_loss' <= best_val_loss]_vars

C6_Witness ==
    /\ Len(log) >= 3
    /\ best_val_loss < log[1].val
    /\ IsFinite(log[1].val)
    /\ log[Len(log)].val > best_val_loss

\* ---- C7 ----
\* C7: no_improve_count is always the number of epochs completed since the
\* last strictly improving epoch; an epoch resets it to 0 when it strictly
\* improves the best validation loss and adds exactly 1 otherwise (a loss
\* equal to the best included).
C7_CountSinceImprovement ==
    /\ [](no_improve_count = SinceImprovement(log))
    /\ [][EpochEnds =>
            no_improve_count' =
                IF log'[Len(log')].val < MinLossUpTo(log, Len(log))
                THEN 0 ELSE no_improve_count + 1]_vars

C7_Witness ==
    /\ no_improve_count >= 2
    /\ LastImprovement(log) >= 1
    /\ log[Len(log)].val = best_val_loss

\* ---- C9 ----
\* C9: with save_best_model enabled, once an epoch with a finite validation
\* loss has completed the checkpoint is set, and a call of test then succeeds,
\* loads that checkpoint and predicts with the values it holds.
FiniteEpochDone(l) == \E i \in 1..Len(l) : IsFinite(l[i].val)

C9_TestFindsCheckpoint ==
    /\ []((save_best_model /\ FiniteEpochDone(log)) => checkpoint # <<>>)
    /\ [][(TestRuns /\ save_best_model /\ FiniteEpochDone(log)) =>
            /\ test_status' = "ok"
            /\ test_loaded' = checkpoint
            /\ test_used' = <<TensorsOf(checkpoint[1], weights)>>]_vars

C9_Witness ==
    /\ save_best_model
    /\ test_status = "ok"
    /\ test_loaded # <<>>
    /\ Len(log) >= 2
    /\ ~IsFinite(log[1].val)

====
